---- MODULE Spec2Model ----
(***************************************************************************)
(* Markov chain plugin: construction of the chain from an observation      *)
(* list (useGraph.updateGraph), the weighted random walk over it           *)
(* (useGenerator.generate), the drawing-mode edits that change the chain   *)
(* by hand (Drawing.addNode, addEdge, NodeModal.handleSubmit), and the     *)
(* playback of a generated sequence by App (play, pause, resume, step,     *)
(* the animation interval, finishAnimating and its export to the dataset). *)
(*                                                                         *)
(* A graph is the GraphData of the source: nodes and edges are arrays,     *)
(* kept here as sequences in insertion order.  Math.random() is a draw     *)
(* k / DrawSteps with k in 0 .. DrawSteps-1, so a comparison               *)
(* tSum >= Math.random() * sum is the integer comparison                   *)
(* tSum * DrawSteps >= k * sum.                                            *)
(*                                                                         *)
(* A handler of App runs to its end, or to its await of outputToDataset,   *)
(* in one step: the awaits of generate resolve in microtasks, before any   *)
(* other event is handled.  The part of finishAnimating after the await    *)
(* is a step of its own.                                                   *)
(***************************************************************************)
EXTENDS Integers, Sequences, FiniteSets

VARIABLES
    viewMode,         \* useCODAP: "dataset", "drawing" or "undefined"
    graph,            \* useGraph: the GraphData held in React state
    values,           \* the observation list passed to the last updateGraph
    options,          \* the GenerateOptions passed to the last generate
    generatedResult,  \* the array returned by the last generate
    selection,        \* the last call of chooseRandomNode or chooseRandomEdge
    lengthLimit,      \* App state: the Max Length field
    delimiter,        \* App state: the Delimiter field
    startingState,    \* App state: the id chosen in Starting State, "" for (any)
    generationMode,   \* App state: "ready", "playing", "paused" or "stepping"
    sequenceGroups,   \* App state: the output history
    prevAnimatedSequenceGroups,    \* ref: the groups before the one animated
    currentAnimatedSequenceGroup,  \* ref: <<group>>, or <<>> for undefined
    currentAnimationStep,          \* ref: "before" or "after"
    prevSequences,    \* ref: the sequences the animated group held at the start
    currentSequence,  \* ref: the sequence being animated
    currentSequenceIndex,          \* ref: the cursor, counted from 0
    animationInterval,             \* ref: the id of the last interval set
    timers,           \* the intervals set and not cleared, each with the graph
                      \* its callback closed over
    highlight,        \* App state: highlightNode, highlightEdge,
                      \* highlightLoopOnNode, highlightAllNextNodes
    pendingFinishes,  \* the calls of finishAnimating waiting in outputToDataset
    exported,         \* the sequences written to the output dataset
    sinkCalled,       \* outputToDataset has been called since the last generate
    attribute,        \* useCODAP state: the attribute watched, "" for undefined
    valuesRef,        \* useCODAP ref: <<list>>, or <<>> for undefined
    hostData,         \* the host: the values of each attribute's cases
    fetches           \* the calls of handleDataChanged waiting for the values

genVars == <<options, generatedResult>>
paramVars == <<lengthLimit, delimiter, startingState>>
seqVars ==
    <<generationMode, sequenceGroups, prevAnimatedSequenceGroups,
      currentAnimatedSequenceGroup, currentAnimationStep, prevSequences,
      currentSequence, currentSequenceIndex, animationInterval, timers,
      highlight, pendingFinishes, exported, sinkCalled>>
codapVars == <<attribute, valuesRef, hostData, fetches>>
vars == <<viewMode, graph, values, genVars, selection, paramVars, seqVars, codapVars>>

----------------------------------------------------------------------------
(* Bounds of the model *)

\* longest observation list fed to updateGraph in SpecBuild
MaxLen == 4
\* longest observation list fed to updateGraph in SpecGen
MaxGenLen == 3
\* longest observation list fed to updateGraph in Spec
MaxSpecLen == 2
\* largest lengthLimit passed to generate
MaxLimit == 5
\* number of equally spaced values Math.random() is drawn from
DrawSteps == 4
\* most states and transitions drawn by hand in SpecDraw
MaxDrawNodes == 2
MaxDrawEdges == 2
\* most intervals set at one time
MaxTimers == 2
\* most calls of outputToDataset pending at one time
MaxPending == 2
\* most sequences in the output history
MaxSequences == 3
\* most sequences in the output history where a scenario starts a run only
\* while the history is short
MaxRuns == 2
\* most sequences written to the output dataset
MaxExports == 2

\* most calls of handleDataChanged waiting for the values at one time
MaxFetches == 2

\* the attributes of the host's dataset and the values their cases can have
Attributes == {"x", "y"}
HostLists == {<<>>, <<"A">>, <<"A", "B">>}

\* the category labels of the bounded observation lists; "" is the separator
Alphabet == {"A", "B"}
Observations == Alphabet \cup {""}

RECURSIVE ListsUpTo(_, _)
ListsUpTo(S, n) ==
    IF n = 0 THEN {<<>>}
    ELSE LET shorter == ListsUpTo(S, n - 1)
         IN shorter \cup {Append(l, x) : l \in {s \in shorter : Len(s) = n - 1}, x \in S}

\* the observation lists of the spec's scenarios
ScenarioRPS == <<"R", "P", "R", "P", "S", "R">>
ScenarioSeparator == <<"A", "B", "", "C", "D">>

Inputs == ListsUpTo(Observations, MaxLen) \cup {ScenarioRPS, ScenarioSeparator}
GenInputs == ListsUpTo(Observations, MaxGenLen)
SpecInputs == ListsUpTo(Observations, MaxSpecLen)
\* the attribute's values while sequences are played back
PlayInputs == {<<"A", "B">>}
\* the attribute's values while starting states are chosen
StartInputs == {<<"A", "B">>, <<"B">>}
\* what is typed into the Max Length field
LengthLimits == {0, 1, 2}
\* what is typed into the Delimiter field
Delimiters == {" ", ","}
\* the attribute's values and the Max Length typed while groups are matched
GroupInputs == {<<"A">>}
GroupLimits == {2}
\* the attribute's values of a chain that stays in its one state
LoopInputs == {<<"A", "A">>}
\* the attribute's values while the chain is also drawn by hand
EditInputs == {<<"A", "B">>, <<"A", "", "A">>, <<"B", "B", "A">>}

----------------------------------------------------------------------------
(* useGraph.updateGraph *)

EmptyGraph == [nodes |-> <<>>, edges |-> <<>>]

\* the ids of a graph's nodes and the ordered pairs of its edges
NodeIds(g) == {g.nodes[i].id : i \in 1..Len(g.nodes)}
EdgePairs(g) == {<<g.edges[i].from, g.edges[i].to>> : i \in 1..Len(g.edges)}

\* Array.prototype.find over the nodes by label: the first index, 0 when none
FindNodeByLabel(nodes, label) ==
    LET hits == {i \in 1..Len(nodes) : nodes[i].label = label}
    IN IF hits = {} THEN 0 ELSE CHOOSE i \in hits : \A j \in hits : i <= j

\* Array.prototype.find over the nodes by id
FindNodeById(nodes, id) ==
    LET hits == {i \in 1..Len(nodes) : nodes[i].id = id}
    IN IF hits = {} THEN 0 ELSE CHOOSE i \in hits : \A j \in hits : i <= j

\* Array.prototype.find over the edges by ordered pair
FindEdge(edges, from, to) ==
    LET hits == {i \in 1..Len(edges) : edges[i].from = from /\ edges[i].to = to}
    IN IF hits = {} THEN 0 ELSE CHOOSE i \in hits : \A j \in hits : i <= j

\* a rebuild that keeps the states of the model it replaces
NewNodes_Leak == graph.nodes

\* the arrays updateGraph starts from
NewNodes == <<>>
NewEdges == <<>>

\* a new state that starts at weight 1 and is then incremented
NodeFor_InitOne(nodes, value) ==
    IF FindNodeByLabel(nodes, value) = 0
    THEN Append(nodes, [id |-> value, label |-> value, value |-> 1])
    ELSE nodes

\* the node found or pushed for an observation
NodeFor(nodes, value) ==
    IF FindNodeByLabel(nodes, value) = 0
    THEN Append(nodes, [id |-> value, label |-> value, value |-> 0])
    ELSE nodes

\* a transition pushed without looking for an existing one
EdgeFor_AlwaysPush(edges, from, to) ==
    Append(edges, [from |-> from, to |-> to, value |-> 0])

\* the edge found or pushed for an ordered pair
EdgeFor(edges, from, to) ==
    IF FindEdge(edges, from, to) = 0
    THEN Append(edges, [from |-> from, to |-> to, value |-> 0])
    ELSE edges

\* a branch that gives a state the weight 1 however often it is observed
Observe_NoCount(acc, value) ==
    LET nodes1 == NodeFor(acc.nodes, value)
        k == FindNodeByLabel(nodes1, value)
        nodes2 == [nodes1 EXCEPT ![k].value = 1]
        node == nodes2[k]
        edges2 ==
            IF acc.prevNode # <<>>
            THEN LET edges1 == EdgeFor(acc.edges, acc.prevNode[1], node.id)
                     j == FindEdge(edges1, acc.prevNode[1], node.id)
                 IN [edges1 EXCEPT ![j].value = @ + 1]
            ELSE acc.edges
    IN [nodes |-> nodes2, edges |-> edges2, prevNode |-> <<node.id>>]

\* the branch of an iteration taken for a non-empty observation
Observe(acc, value) ==
    LET nodes1 == NodeFor(acc.nodes, value)
        k == FindNodeByLabel(nodes1, value)
        nodes2 == [nodes1 EXCEPT ![k].value = @ + 1]
        node == nodes2[k]
        edges2 ==
            IF acc.prevNode # <<>>
            THEN LET edges1 == EdgeFor(acc.edges, acc.prevNode[1], node.id)
                     j == FindEdge(edges1, acc.prevNode[1], node.id)
                 IN [edges1 EXCEPT ![j].value = @ + 1]
            ELSE acc.edges
    IN [nodes |-> nodes2, edges |-> edges2, prevNode |-> <<node.id>>]

\* an iteration that leaves prevNode alone on a separator
ForEachValue_NoReset(acc, value) ==
    IF value # "" THEN Observe(acc, value) ELSE acc

\* an iteration that takes the separator for an observation
ForEachValue_NoSeparator(acc, value) == Observe(acc, value)

\* an iteration that records no transition from a state to itself
ForEachValue_NoSelfLoop(acc, value) ==
    IF value # ""
    THEN IF acc.prevNode = <<value>>
         THEN Observe([acc EXCEPT !.prevNode = <<>>], value)
         ELSE Observe(acc, value)
    ELSE [acc EXCEPT !.prevNode = <<>>]

\* one iteration of values.forEach; prevNode is <<>> for null, <<id>> otherwise
ForEachValue(acc, value) ==
    IF value # "" THEN Observe(acc, value) ELSE [acc EXCEPT !.prevNode = <<>>]

RECURSIVE ForEach(_, _, _)
ForEach(vals, i, acc) ==
    IF i > Len(vals) THEN acc
    ELSE ForEach(vals, i + 1, ForEachValue(acc, vals[i]))

\* the GraphData updateGraph hands to setGraph
updateGraph(vals) ==
    LET acc == ForEach(vals, 1, [nodes |-> NewNodes, edges |-> NewEdges, prevNode |-> <<>>])
    IN [nodes |-> acc.nodes, edges |-> acc.edges]

----------------------------------------------------------------------------
(* useGenerator.generate *)

\* the values Math.random() takes, as numerators over DrawSteps
Draws == 0..(DrawSteps - 1)

RECURSIVE SumValues(_)
SumValues(seq) == IF seq = <<>> THEN 0 ELSE seq[1].value + SumValues(Tail(seq))

\* tSum once the find callback has run on the first i candidates
RunningSum(cands, i) == SumValues(SubSeq(cands, 1, i))

\* a find that stops only once tSum is above chosenSum
FindChosen_Strict(cands, r) ==
    LET sum == SumValues(cands)
        hits == {i \in 1..Len(cands) : RunningSum(cands, i) * DrawSteps > r * sum}
    IN IF hits = {} THEN 0 ELSE CHOOSE i \in hits : \A j \in hits : i <= j

\* the find of chooseRandomNode and chooseRandomEdge: the first candidate at
\* which tSum >= chosenSum, with chosenSum = (r / DrawSteps) * sum; 0 when
\* find returns undefined
FindChosen(cands, r) ==
    LET sum == SumValues(cands)
        hits == {i \in 1..Len(cands) : RunningSum(cands, i) * DrawSteps >= r * sum}
    IN IF hits = {} THEN 0 ELSE CHOOSE i \in hits : \A j \in hits : i <= j

\* the index in g.nodes of the node chooseRandomNode returns, 0 for undefined
chooseRandomNode(g, r) == FindChosen(g.nodes, r)

\* a filter that lets every transition of the chain through
EdgesFrom_Any(g, iNode) == g.edges

\* graph.edges.filter(iEdge => iEdge.from === iNode.id)
EdgesFrom(g, iNode) == SelectSeq(g.edges, LAMBDA e : e.from = iNode.id)

\* a choice among the transitions that lead to another state only
chooseRandomEdge_NoLoops(g, iNode, r) ==
    LET edges == SelectSeq(g.edges, LAMBDA e : e.from = iNode.id /\ e.to # iNode.id)
        k == FindChosen(edges, r)
    IN IF k = 0 THEN <<>> ELSE <<edges[k]>>

\* the edge chooseRandomEdge returns: <<edge>>, or <<>> for undefined
chooseRandomEdge(g, iNode, r) ==
    LET edges == EdgesFrom(g, iNode)
        k == FindChosen(edges, r)
    IN IF k = 0 THEN <<>> ELSE <<edges[k]>>

\* a walk that starts over at the first state when it finds no transition
NextNode_Restart(g, iNode, r) ==
    LET currentEdge == chooseRandomEdge(g, iNode, r)
    IN IF currentEdge # <<>> /\ currentEdge[1].to # ""
       THEN FindNodeById(g.nodes, currentEdge[1].to)
       ELSE 1

\* the node the loop body moves to: the index in g.nodes of the target of
\* the chosen edge, 0 for null or undefined
NextNode(g, iNode, r) ==
    LET currentEdge == chooseRandomEdge(g, iNode, r)
    IN IF currentEdge # <<>> /\ currentEdge[1].to # ""
       THEN FindNodeById(g.nodes, currentEdge[1].to)
       ELSE 0

\* a loop that runs once more than the limit allows
LoopContinues_OffByOne(currentNode, result, limit) ==
    currentNode # 0 /\ Len(result) <= limit

\* the condition of the while loop
LoopContinues(currentNode, result, limit) ==
    currentNode # 0 /\ Len(result) < limit

\* the arrays the while loop can end with, from a loop state on, over all
\* the values Math.random() can return in chooseRandomEdge
RECURSIVE Walk(_, _, _, _)
Walk(g, currentNode, result, limit) ==
    IF LoopContinues(currentNode, result, limit)
    THEN LET pushed == Append(result, g.nodes[currentNode].label)
             nexts == {NextNode(g, g.nodes[currentNode], r) : r \in Draws}
         IN UNION {Walk(g, n, pushed, limit) : n \in nexts}
    ELSE {result}

\* the arrays generate can return, over all the values of Math.random()
generate(g, opts) ==
    LET starts == {chooseRandomNode(g, r) : r \in Draws}
    IN UNION {Walk(g, n, <<>>, opts.lengthLimit) : n \in starts}

----------------------------------------------------------------------------
(* Drawing: addNode, addEdge, and NodeModal's handleSubmit *)

\* the ids nanoid() hands out and the labels addNode gives
DrawIds == <<"n1", "n2", "n3", "n4">>
StateLabels == <<"State 1", "State 2", "State 3", "State 4">>

\* the percentages a NodeModal is submitted with
Percents == {0, 50, 100}

\* the largest sum of outgoing weights a NodeModal is opened on
MaxWeight == 10

addNode(prev, id) ==
    [nodes |-> Append(prev.nodes,
                      [id |-> id, label |-> StateLabels[Len(prev.nodes) + 1], value |-> 1]),
     edges |-> prev.edges]

\* the ids of the Drawing that numbers its nodes
NodeNumbers == <<"node_1", "node_2", "node_3", "node_4">>

\* addNode of the Drawing that numbers its nodes: the id and the label are
\* taken from the number of nodes the chain has
addNodeNumbered(prev) ==
    [nodes |-> Append(prev.nodes,
                      [id |-> NodeNumbers[Len(prev.nodes) + 1],
                       label |-> StateLabels[Len(prev.nodes) + 1], value |-> 1]),
     edges |-> prev.edges]

addEdge(prev, from, to) ==
    IF FindEdge(prev.edges, from, to) = 0
    THEN [nodes |-> prev.nodes,
          edges |-> Append(prev.edges, [from |-> from, to |-> to, value |-> 1])]
    ELSE prev

\* Array.prototype.splice(index, 1); index 0 stands for a findIndex of -1
Splice(seq, index) ==
    IF index = 0 THEN seq
    ELSE SubSeq(seq, 1, index - 1) \o SubSeq(seq, index + 1, Len(seq))

\* a delete that keeps the transitions that enter the deleted state
handleNodeClicked_KeepsIncoming(prev, id, onLoop) ==
    IF onLoop
    THEN [nodes |-> prev.nodes,
          edges |-> Splice(prev.edges, FindEdge(prev.edges, id, id))]
    ELSE LET nodeIndex == FindNodeById(prev.nodes, id)
         IN IF nodeIndex # 0
            THEN [nodes |-> Splice(prev.nodes, nodeIndex),
                  edges |-> SelectSeq(prev.edges, LAMBDA e : e.from # id)]
            ELSE prev

\* handleNodeClicked in delete mode on a node of the graph: a click on its
\* loop removes the transition from the node to itself, a click on the node
\* removes the node and the transitions that leave or enter it
handleNodeClicked(prev, id, onLoop) ==
    IF onLoop
    THEN [nodes |-> prev.nodes,
          edges |-> Splice(prev.edges, FindEdge(prev.edges, id, id))]
    ELSE LET nodeIndex == FindNodeById(prev.nodes, id)
         IN IF nodeIndex # 0
            THEN [nodes |-> Splice(prev.nodes, nodeIndex),
                  edges |-> SelectSeq(prev.edges, LAMBDA e : e.from # id /\ e.to # id)]
            ELSE prev

\* handleEdgeClicked in delete mode
handleEdgeClicked(prev, from, to) ==
    [nodes |-> prev.nodes, edges |-> Splice(prev.edges, FindEdge(prev.edges, from, to))]

\* the edges handleSubmit passes on: those of the node get sum * percentage,
\* in array order
RECURSIVE NewEdgeValues(_, _, _, _)
NewEdgeValues(edges, id, sum, exactPercentages) ==
    IF edges = <<>> THEN <<>>
    ELSE IF edges[1].from = id
         THEN <<[edges[1] EXCEPT !.value = sum * exactPercentages[1]]>>
                  \o NewEdgeValues(Tail(edges), id, sum, Tail(exactPercentages))
         ELSE <<edges[1]>> \o NewEdgeValues(Tail(edges), id, sum, exactPercentages)

\* handleSubmit followed by handleChangeNode, the label left as it is
handleChangeNode(prev, id, exactPercentages) ==
    LET k == FindNodeById(prev.nodes, id)
        sum == SumValues(EdgesFrom(prev, prev.nodes[k]))
    IN [nodes |-> prev.nodes,
        edges |-> NewEdgeValues(prev.edges, id, sum, exactPercentages)]

\* the percentage lists a modal with n sliders can hold: they add up to 100
RECURSIVE SumSeq(_)
SumSeq(seq) == IF seq = <<>> THEN 0 ELSE seq[1] + SumSeq(Tail(seq))

PercentLists(n) == {ps \in [1..n -> Percents] : SumSeq(ps) = 100}

----------------------------------------------------------------------------
(* A single call of chooseRandomNode or chooseRandomEdge, with its draw *)

NoSelection == [kind |-> "none"]

\* chooseRandomNode() with Math.random() = r / DrawSteps
ChosenNode(g, r) ==
    LET k == chooseRandomNode(g, r)
    IN [kind |-> "node", from |-> "", draw |-> r,
        chosen |-> IF k = 0 THEN <<>> ELSE <<g.nodes[k]>>]

\* chooseRandomEdge(iNode) with Math.random() = r / DrawSteps
ChosenEdge(g, iNode, r) ==
    [kind |-> "edge", from |-> iNode.id, draw |-> r,
     chosen |-> chooseRandomEdge(g, iNode, r)]

----------------------------------------------------------------------------
(* useGenerator.generate as App calls it: an optional startingNode, and a  *)
(* result made of the nodes visited                                        *)

\* the while loop, pushing the node itself
RECURSIVE WalkNodes(_, _, _, _)
WalkNodes(g, currentNode, result, limit) ==
    IF LoopContinues(currentNode, result, limit)
    THEN LET pushed == Append(result, g.nodes[currentNode])
             nexts == {NextNode(g, g.nodes[currentNode], r) : r \in Draws}
         IN UNION {WalkNodes(g, n, pushed, limit) : n \in nexts}
    ELSE {result}

\* the sequences generate can return: the walk starts at opts.startingNode
\* when one is given, at a weighted choice among all the states otherwise
generateNodes(g, opts) ==
    LET starts == IF opts.startingNode # <<>>
                  THEN {FindNodeById(g.nodes, opts.startingNode[1].id)}
                  ELSE {chooseRandomNode(g, r) : r \in Draws}
    IN UNION {WalkNodes(g, n, <<>>, opts.lengthLimit) : n \in starts}

----------------------------------------------------------------------------
(* App: the playback of a generated sequence.  The operators below take    *)
(* the sequencer's state and refs as a record s and return them as the     *)
(* handler leaves them.                                                    *)

\* useState(5) of lengthLimit
InitialLengthLimit == 5

NoHighlight == [node |-> <<>>, edge |-> <<>>, loopOnNode |-> <<>>, allNextNodes |-> FALSE]

Sequencer ==
    [generationMode |-> generationMode,
     sequenceGroups |-> sequenceGroups,
     prevAnimatedSequenceGroups |-> prevAnimatedSequenceGroups,
     currentAnimatedSequenceGroup |-> currentAnimatedSequenceGroup,
     currentAnimationStep |-> currentAnimationStep,
     prevSequences |-> prevSequences,
     currentSequence |-> currentSequence,
     currentSequenceIndex |-> currentSequenceIndex,
     animationInterval |-> animationInterval,
     timers |-> timers,
     highlight |-> highlight,
     pendingFinishes |-> pendingFinishes,
     exported |-> exported,
     sinkCalled |-> sinkCalled]

Min(a, b) == IF a <= b THEN a ELSE b

\* a find whose predicate holds of every node
StartingNode_ByPosition(g, state) ==
    IF state # "" /\ g.nodes # <<>> THEN <<g.nodes[1]>> ELSE <<>>

\* graph.nodes.find(n => n.id === startingState) when startingState is not
\* empty: <<node>>, or <<>> for undefined
StartingNode(g, state) ==
    IF state # "" /\ FindNodeById(g.nodes, state) # 0
    THEN <<g.nodes[FindNodeById(g.nodes, state)]>>
    ELSE <<>>

\* what generate can return for the parameters in the fields
GeneratedSequences ==
    generateNodes(graph, [startingNode |-> StartingNode(graph, startingState),
                          lengthLimit |-> lengthLimit])

\* a match of the last group that does not compare the delimiter
generateNewSequence_NoDelimiter(s, seq) ==
    LET prev == s.sequenceGroups
        last == IF prev = <<>> THEN <<>> ELSE <<prev[Len(prev)]>>
        fresh == \/ last = <<>>
                 \/ last[1].lengthLimit # lengthLimit
                 \/ last[1].startingState # startingState
        group == IF fresh
                 THEN [delimiter |-> delimiter, lengthLimit |-> lengthLimit,
                       startingState |-> startingState,
                       startingNode |-> StartingNode(graph, startingState),
                       sequences |-> <<>>]
                 ELSE last[1]
    IN [s EXCEPT !.currentSequence = seq,
                 !.currentSequenceIndex = 0,
                 !.prevAnimatedSequenceGroups =
                      IF fresh THEN prev ELSE SubSeq(prev, 1, Len(prev) - 1),
                 !.currentAnimatedSequenceGroup = <<group>>,
                 !.prevSequences = group.sequences,
                 !.currentAnimationStep = "before",
                 !.sinkCalled = FALSE]

\* generateNewSequence, with seq the sequence generate returned
generateNewSequence(s, seq) ==
    LET prev == s.sequenceGroups
        last == IF prev = <<>> THEN <<>> ELSE <<prev[Len(prev)]>>
        fresh == \/ last = <<>>
                 \/ last[1].delimiter # delimiter
                 \/ last[1].lengthLimit # lengthLimit
                 \/ last[1].startingState # startingState
        group == IF fresh
                 THEN [delimiter |-> delimiter, lengthLimit |-> lengthLimit,
                       startingState |-> startingState,
                       startingNode |-> StartingNode(graph, startingState),
                       sequences |-> <<>>]
                 ELSE last[1]
    IN [s EXCEPT !.currentSequence = seq,
                 !.currentSequenceIndex = 0,
                 !.prevAnimatedSequenceGroups =
                      IF fresh THEN prev ELSE SubSeq(prev, 1, Len(prev) - 1),
                 !.currentAnimatedSequenceGroup = <<group>>,
                 !.prevSequences = group.sequences,
                 !.currentAnimationStep = "before",
                 !.sinkCalled = FALSE]

currentSequenceAnimating(s) == s.currentSequenceIndex < Len(s.currentSequence) - 1

inBeforeStep(s) == s.currentAnimationStep = "before"

\* animateCurrentSequenceIndex, in a closure that holds the graph g
animateCurrentSequenceIndex(s, g) ==
    LET seq == s.currentSequence
        i == s.currentSequenceIndex
        currentNode == IF i + 1 <= Len(seq) THEN <<seq[i + 1]>> ELSE <<>>
        nextNode == IF i + 2 <= Len(seq) THEN <<seq[i + 2]>> ELSE <<>>
        k == FindEdge(g.edges, currentNode[1].id, nextNode[1].id)
        edge == IF nextNode # <<>> /\ k # 0 THEN <<g.edges[k]>> ELSE <<>>
        shown == IF inBeforeStep(s)
                 THEN [node |-> currentNode, edge |-> <<>>,
                       loopOnNode |-> currentNode, allNextNodes |-> nextNode # <<>>]
                 ELSE [node |-> nextNode, edge |-> edge,
                       loopOnNode |-> IF nextNode = currentNode THEN nextNode ELSE <<>>,
                       allNextNodes |-> FALSE]
        delta == IF inBeforeStep(s) THEN 1 ELSE 2
        animatedSequence == SubSeq(seq, 1, Min(i + delta, Len(seq)))
        group == [s.currentAnimatedSequenceGroup[1] EXCEPT
                     !.sequences = Append(s.prevSequences, animatedSequence)]
    IN IF s.currentAnimatedSequenceGroup # <<>>
       THEN [s EXCEPT !.highlight = shown,
                      !.currentAnimatedSequenceGroup = <<group>>,
                      !.sequenceGroups = Append(s.prevAnimatedSequenceGroups, group)]
       ELSE [s EXCEPT !.highlight = shown]

\* window.clearInterval(animationInterval.current)
stopAnimationInterval(s) ==
    [s EXCEPT !.timers = {t \in @ : t.id # s.animationInterval}]

\* an interval id no interval that is still set has
NewTimerId(s) ==
    CHOOSE id \in 1..(Cardinality(s.timers) + 1) :
        /\ \A t \in s.timers : t.id # id
        /\ \A j \in 1..(id - 1) : \E t \in s.timers : t.id = j

\* startAnimationInterval: the id is stored over the one held before
startAnimationInterval(s, g) ==
    LET id == NewTimerId(s)
    IN [s EXCEPT !.animationInterval = id,
                 !.timers = @ \cup {[id |-> id, graph |-> g]}]

\* outputToDataset: the rows are created unless a request fails; a failure
\* is caught and logged, and the call resolves either way
outputToDataset(rows, sequence, ok) ==
    IF ok THEN Append(rows, sequence) ELSE rows

\* finishAnimating up to its await: the call of outputToDataset is started
\* with the sequence of that moment
finishAnimating(s) ==
    LET cleared == [s EXCEPT !.highlight =
                       [@ EXCEPT !.node = <<>>, !.edge = <<>>, !.loopOnNode = <<>>]]
        stopped == stopAnimationInterval(cleared)
    IN [stopped EXCEPT !.pendingFinishes = Append(@, s.currentSequence),
                       !.sinkCalled = TRUE]

\* a commit that is dropped when the export failed
finishAnimatingResumed_Rollback(s, k, ok) ==
    LET sequence == s.pendingFinishes[k]
        rest == SubSeq(s.pendingFinishes, 1, k - 1)
                    \o SubSeq(s.pendingFinishes, k + 1, Len(s.pendingFinishes))
        done == [s EXCEPT !.pendingFinishes = rest,
                          !.exported = outputToDataset(@, sequence, ok)]
        group == [s.currentAnimatedSequenceGroup[1] EXCEPT
                     !.sequences = Append(s.prevSequences, s.currentSequence)]
        committed == IF s.currentAnimatedSequenceGroup # <<>> /\ ok
                     THEN [done EXCEPT
                              !.currentAnimatedSequenceGroup = <<group>>,
                              !.sequenceGroups = Append(s.prevAnimatedSequenceGroups, group)]
                     ELSE done
    IN [committed EXCEPT !.generationMode = "ready"]

\* finishAnimating from its await on: the k-th pending call of
\* outputToDataset has resolved, its requests having succeeded or not
finishAnimatingResumed(s, k, ok) ==
    LET sequence == s.pendingFinishes[k]
        rest == SubSeq(s.pendingFinishes, 1, k - 1)
                    \o SubSeq(s.pendingFinishes, k + 1, Len(s.pendingFinishes))
        done == [s EXCEPT !.pendingFinishes = rest,
                          !.exported = outputToDataset(@, sequence, ok)]
        group == [s.currentAnimatedSequenceGroup[1] EXCEPT
                     !.sequences = Append(s.prevSequences, s.currentSequence)]
        committed == IF s.currentAnimatedSequenceGroup # <<>>
                     THEN [done EXCEPT
                              !.currentAnimatedSequenceGroup = <<group>>,
                              !.sequenceGroups = Append(s.prevAnimatedSequenceGroups, group)]
                     ELSE done
    IN [committed EXCEPT !.generationMode = "ready"]

\* an advance by a whole hop
animateNextSequenceIndex_WholeHop(s, g) ==
    LET moved == [s EXCEPT !.currentAnimationStep = "before",
                           !.currentSequenceIndex = @ + 1]
    IN IF currentSequenceAnimating(moved)
       THEN animateCurrentSequenceIndex(moved, g)
       ELSE finishAnimating(moved)

animateNextSequenceIndex(s, g) ==
    LET moved == IF inBeforeStep(s)
                 THEN [s EXCEPT !.currentAnimationStep = "after"]
                 ELSE [s EXCEPT !.currentAnimationStep = "before",
                                !.currentSequenceIndex = @ + 1]
    IN IF currentSequenceAnimating(moved)
       THEN animateCurrentSequenceIndex(moved, g)
       ELSE finishAnimating(moved)

\* a callback that goes on advancing only
intervalCallback_NoFinish(s, g) ==
    IF currentSequenceAnimating(s)
    THEN animateNextSequenceIndex(s, g)
    ELSE s

\* the callback of the interval
intervalCallback(s, g) ==
    IF currentSequenceAnimating(s)
    THEN animateNextSequenceIndex(s, g)
    ELSE finishAnimating(s)

handleClearOutput(s) == [s EXCEPT !.sequenceGroups = <<>>]

handlePause(s) == stopAnimationInterval([s EXCEPT !.generationMode = "paused"])

\* a resume that does not look at the cursor
handleResume_AlwaysStart(s, g) ==
    startAnimationInterval([s EXCEPT !.generationMode = "playing"], g)

handleResume(s, g) ==
    IF currentSequenceAnimating(s)
    THEN startAnimationInterval([s EXCEPT !.generationMode = "playing"], g)
    ELSE finishAnimating(s)

\* handleStep; seq is what generate returns if it is called
handleStep(s, g, seq) ==
    IF s.generationMode # "stepping" /\ s.generationMode # "paused"
    THEN animateCurrentSequenceIndex(
             generateNewSequence([s EXCEPT !.generationMode = "stepping"], seq), g)
    ELSE IF currentSequenceAnimating(s)
         THEN animateNextSequenceIndex(s, g)
         ELSE finishAnimating(s)

\* handlePlay; seq is what generate returns
handlePlay(s, g, seq) ==
    startAnimationInterval(
        animateCurrentSequenceIndex(
            generateNewSequence([s EXCEPT !.generationMode = "playing"], seq), g), g)

----------------------------------------------------------------------------
(* State machine *)

Init ==
    /\ viewMode = "undefined"
    /\ graph = EmptyGraph
    /\ values = <<>>
    /\ options = [lengthLimit |-> 0]
    /\ generatedResult = <<>>
    /\ selection = NoSelection
    /\ lengthLimit = InitialLengthLimit
    /\ delimiter = " "
    /\ startingState = ""
    /\ generationMode = "ready"
    /\ sequenceGroups = <<>>
    /\ prevAnimatedSequenceGroups = <<>>
    /\ currentAnimatedSequenceGroup = <<>>
    /\ currentAnimationStep = "before"
    /\ prevSequences = <<>>
    /\ currentSequence = <<>>
    /\ currentSequenceIndex = 0
    /\ animationInterval = 0
    /\ timers = {}
    /\ highlight = NoHighlight
    /\ pendingFinishes = <<>>
    /\ exported = <<>>
    /\ sinkCalled = FALSE
    /\ attribute = ""
    /\ valuesRef = <<>>
    /\ hostData = [a \in Attributes |-> <<>>]
    /\ fetches = <<>>

\* the Dataset button of the main menu
handleSelectDatasetMode ==
    /\ viewMode = "undefined"
    /\ viewMode' = "dataset"
    /\ UNCHANGED <<graph, values, options, generatedResult, selection, codapVars, paramVars, seqVars>>

\* the Drawing button of the main menu
handleSelectDrawingMode ==
    /\ viewMode = "undefined"
    /\ viewMode' = "drawing"
    /\ UNCHANGED <<graph, values, options, generatedResult, selection, codapVars, paramVars, seqVars>>

\* Reset, confirmed
handleReset ==
    /\ viewMode # "undefined"
    /\ graph' = EmptyGraph
    /\ UNCHANGED <<viewMode, values, options, generatedResult, selection, codapVars, paramVars, seqVars>>

\* Return to main menu, confirmed
handleReturnToMainMenu ==
    /\ viewMode # "undefined"
    /\ graph' = EmptyGraph
    /\ viewMode' = "undefined"
    /\ UNCHANGED <<values, options, generatedResult, selection, codapVars, paramVars, seqVars>>

\* a rebuild that starts the run in progress over
UpdateGraph_RestartsRun(vals) ==
    /\ viewMode = "dataset"
    /\ graph' = updateGraph(vals)
    /\ values' = vals
    /\ currentSequenceIndex' = 0
    /\ currentAnimationStep' = "before"
    /\ UNCHANGED <<viewMode, options, generatedResult, selection, codapVars, paramVars,
                   generationMode, sequenceGroups, prevAnimatedSequenceGroups,
                   currentAnimatedSequenceGroup, prevSequences, currentSequence,
                   animationInterval, timers, highlight, pendingFinishes, exported,
                   sinkCalled>>

\* onCODAPDataChanged: in dataset mode the host hands over the attribute's
\* values and the graph is rebuilt from them
UpdateGraph(vals) ==
    /\ viewMode = "dataset"
    /\ graph' = updateGraph(vals)
    /\ values' = vals
    /\ UNCHANGED <<viewMode, options, generatedResult, selection, codapVars, paramVars, seqVars>>

\* a call of generate on the current graph
Generate(limit) ==
    /\ options' = [lengthLimit |-> limit]
    /\ generatedResult' \in generate(graph, options')
    /\ UNCHANGED <<viewMode, graph, values, selection, codapVars, paramVars, seqVars>>

\* a click on the canvas in addNode mode
AddNode(id) ==
    /\ viewMode = "drawing"
    /\ Len(graph.nodes) < MaxDrawNodes
    /\ graph' = addNode(graph, id)
    /\ UNCHANGED <<viewMode, values, options, generatedResult, selection, codapVars, paramVars, seqVars>>

\* the second click (or a double click) on a node in addEdge mode
AddEdge(from, to) ==
    /\ viewMode = "drawing"
    /\ Len(graph.edges) < MaxDrawEdges
    /\ graph' = addEdge(graph, from, to)
    /\ UNCHANGED <<viewMode, values, options, generatedResult, selection, codapVars, paramVars, seqVars>>

\* Save in the NodeModal of a node
ChangeNode(id, exactPercentages) ==
    /\ viewMode = "drawing"
    /\ SumValues(EdgesFrom(graph, [id |-> id])) <= MaxWeight
    /\ graph' = handleChangeNode(graph, id, exactPercentages)
    /\ UNCHANGED <<viewMode, values, options, generatedResult, selection, codapVars, paramVars, seqVars>>

\* a click on the canvas in addNode mode, in the Drawing that numbers its
\* nodes
AddNodeNumbered ==
    /\ viewMode = "drawing"
    /\ Len(graph.nodes) < MaxDrawNodes
    /\ graph' = addNodeNumbered(graph)
    /\ UNCHANGED <<viewMode, values, options, generatedResult, selection, codapVars, paramVars, seqVars>>

\* a click on a node, or on its loop, in delete mode
DeleteNode(id, onLoop) ==
    /\ viewMode = "drawing"
    /\ graph' = handleNodeClicked(graph, id, onLoop)
    /\ UNCHANGED <<viewMode, values, options, generatedResult, selection, codapVars, paramVars, seqVars>>

\* a click on a transition in delete mode
DeleteEdge(from, to) ==
    /\ viewMode = "drawing"
    /\ graph' = handleEdgeClicked(graph, from, to)
    /\ UNCHANGED <<viewMode, values, options, generatedResult, selection, codapVars, paramVars, seqVars>>

\* the edits of the Drawing component
Draw ==
    \/ \E i \in 1..MaxDrawNodes : DrawIds[i] \notin NodeIds(graph) /\ AddNode(DrawIds[i])
    \/ \E from, to \in NodeIds(graph) : AddEdge(from, to)
    \/ \E id \in NodeIds(graph) :
          \E ps \in PercentLists(Len(EdgesFrom(graph, [id |-> id]))) : ChangeNode(id, ps)

\* dataset mode, the chain rebuilt from the host's data
NextBuild ==
    \/ handleSelectDatasetMode
    \/ \E vals \in Inputs : UpdateGraph(vals)

SpecBuild == Init /\ [][NextBuild]_vars

\* dataset mode, the chain rebuilt and sequences generated from it
NextGen ==
    \/ handleSelectDatasetMode
    \/ \E vals \in GenInputs : UpdateGraph(vals)
    \/ \E limit \in 0..MaxLimit : Generate(limit)

SpecGen == Init /\ [][NextGen]_vars

\* drawing mode, the chain drawn by hand and sequences generated from it
NextDraw ==
    \/ handleSelectDrawingMode
    \/ Draw
    \/ \E limit \in 0..MaxLimit : Generate(limit)

SpecDraw == Init /\ [][NextDraw]_vars

----------------------------------------------------------------------------
(* The events of the sequencer *)

RECURSIVE TotalSequences(_)
TotalSequences(groups) ==
    IF groups = <<>> THEN 0
    ELSE Len(groups[1].sequences) + TotalSequences(Tail(groups))

\* the history is short enough for one more run
RoomForRun == TotalSequences(sequenceGroups) < MaxRuns

\* the bounds of the model on what a handler leaves behind
Bounded(s) ==
    /\ Cardinality(s.timers) <= MaxTimers
    /\ Len(s.pendingFinishes) <= MaxPending
    /\ TotalSequences(s.sequenceGroups) <= MaxSequences
    /\ Len(s.exported) <= MaxExports

\* the sequencer's state and refs become those of s
Becomes(s) ==
    /\ Bounded(s)
    /\ generationMode' = s.generationMode
    /\ sequenceGroups' = s.sequenceGroups
    /\ prevAnimatedSequenceGroups' = s.prevAnimatedSequenceGroups
    /\ currentAnimatedSequenceGroup' = s.currentAnimatedSequenceGroup
    /\ currentAnimationStep' = s.currentAnimationStep
    /\ prevSequences' = s.prevSequences
    /\ currentSequence' = s.currentSequence
    /\ currentSequenceIndex' = s.currentSequenceIndex
    /\ animationInterval' = s.animationInterval
    /\ timers' = s.timers
    /\ highlight' = s.highlight
    /\ pendingFinishes' = s.pendingFinishes
    /\ exported' = s.exported
    /\ sinkCalled' = s.sinkCalled
    /\ UNCHANGED <<viewMode, graph, values, genVars, selection, codapVars, paramVars>>

\* uiForGenerate: the fields and buttons are rendered and not disabled
GenerateEnabled == viewMode # "undefined" /\ graph.nodes # <<>>

\* sequenceOutput is rendered
OutputShown == viewMode = "drawing" \/ (viewMode = "dataset" /\ graph.nodes # <<>>)

\* the Max Length field
handleChangeLengthLimit(n) ==
    /\ GenerateEnabled
    /\ lengthLimit' = n
    /\ UNCHANGED <<viewMode, graph, values, genVars, selection, codapVars, delimiter, startingState, seqVars>>

\* the Delimiter field
handleChangeDelimiter(d) ==
    /\ GenerateEnabled
    /\ delimiter' = d
    /\ UNCHANGED <<viewMode, graph, values, genVars, selection, codapVars, lengthLimit, startingState, seqVars>>

\* the Starting State select: (any) or one of the states of the graph
handleChangeStartingState(id) ==
    /\ GenerateEnabled
    /\ id \in NodeIds(graph) \cup {""}
    /\ startingState' = id
    /\ UNCHANGED <<viewMode, graph, values, genVars, selection, codapVars, lengthLimit, delimiter, seqVars>>

\* the play button while it reads Play
Play ==
    /\ GenerateEnabled
    /\ generationMode \in {"ready", "stepping"}
    /\ \E seq \in GeneratedSequences : Becomes(handlePlay(Sequencer, graph, seq))

\* the play button while it reads Pause
Pause ==
    /\ GenerateEnabled
    /\ generationMode = "playing"
    /\ Becomes(handlePause(Sequencer))

\* the play button while it reads Resume
Resume ==
    /\ GenerateEnabled
    /\ generationMode = "paused"
    /\ Becomes(handleResume(Sequencer, graph))

\* the Step button in ready mode
StepNew ==
    /\ GenerateEnabled
    /\ generationMode = "ready"
    /\ \E seq \in GeneratedSequences : Becomes(handleStep(Sequencer, graph, seq))

\* the Step button in stepping or paused mode
StepOn ==
    /\ GenerateEnabled
    /\ generationMode \in {"stepping", "paused"}
    /\ Becomes(handleStep(Sequencer, graph, <<>>))

\* the Clear Output button
ClearOutput ==
    /\ OutputShown
    /\ sequenceGroups # <<>>
    /\ generationMode = "ready"
    /\ Becomes(handleClearOutput(Sequencer))

\* an interval that is set fires
TimerFires ==
    \E t \in timers : Becomes(intervalCallback(Sequencer, t.graph))

\* a pending outputToDataset resolves and finishAnimating goes on
FinishResumes ==
    \E k \in 1..Len(pendingFinishes) : \E ok \in BOOLEAN :
        Becomes(finishAnimatingResumed(Sequencer, k, ok))

\* a call of chooseRandomNode on the graph
ChooseNode(r) ==
    /\ selection' = ChosenNode(graph, r)
    /\ UNCHANGED <<viewMode, graph, values, genVars, codapVars, paramVars, seqVars>>

\* a call of chooseRandomEdge on a node of the graph
ChooseEdge(k, r) ==
    /\ selection' = ChosenEdge(graph, graph.nodes[k], r)
    /\ UNCHANGED <<viewMode, graph, values, genVars, codapVars, paramVars, seqVars>>

\* getValuesForAttribute: the values the host has for the attribute when
\* the request is made
getValuesForAttribute(a) == hostData[a]

\* handleDataChanged up to its await: the request is made for the attribute
\* handed over, in a closure that holds the view mode
handleDataChanged(a) ==
    Append(fetches, [attribute |-> a, values |-> getValuesForAttribute(a),
                     viewMode |-> viewMode])

\* handleDrop of an attribute on the plugin: valuesRef is set to the empty
\* list, the attribute becomes the one watched and its values are requested
handleDrop(a) ==
    /\ viewMode = "dataset"
    /\ Len(fetches) < MaxFetches
    /\ valuesRef' = << <<>> >>
    /\ attribute' = a
    /\ fetches' = handleDataChanged(a)
    /\ UNCHANGED <<viewMode, graph, values, genVars, selection, paramVars, seqVars,
                   hostData>>

\* the cases of the host change and the host notifies the plugin:
\* handleCasesChanged requests the values of the attribute watched, if any
handleCasesChanged(a, vals) ==
    /\ Len(fetches) < MaxFetches
    /\ hostData[a] # vals
    /\ hostData' = [hostData EXCEPT ![a] = vals]
    /\ fetches' = IF attribute # ""
                  THEN Append(fetches, [attribute |-> attribute,
                                        values |-> hostData'[attribute],
                                        viewMode |-> viewMode])
                  ELSE fetches
    /\ UNCHANGED <<viewMode, graph, values, genVars, selection, paramVars, seqVars,
                   attribute, valuesRef>>

\* handleDataChanged from its await on: the k-th request is answered; in
\* dataset mode, values that differ from those of valuesRef are handed to
\* updateGraph and kept in valuesRef
handleDataChangedResumed(k) ==
    LET fetch == fetches[k]
        valuesChanged == valuesRef = <<>> \/ fetch.values # valuesRef[1]
    IN /\ fetches' = SubSeq(fetches, 1, k - 1) \o SubSeq(fetches, k + 1, Len(fetches))
       /\ IF fetch.viewMode = "dataset" /\ valuesChanged
          THEN /\ graph' = updateGraph(fetch.values)
               /\ values' = fetch.values
               /\ valuesRef' = <<fetch.values>>
          ELSE UNCHANGED <<graph, values, valuesRef>>
       /\ UNCHANGED <<viewMode, genVars, selection, paramVars, seqVars, attribute, hostData>>

\* the weighted choices of generate on a chain built from data or drawn:
\* the chain is built, then a call of chooseRandomNode or chooseRandomEdge
\* is made on it
NextChoose ==
    \/ selection = NoSelection /\ handleSelectDatasetMode
    \/ selection = NoSelection /\ handleSelectDrawingMode
    \/ selection = NoSelection /\ \E vals \in SpecInputs : UpdateGraph(vals)
    \/ selection = NoSelection /\ Draw
    \/ selection = NoSelection /\ \E r \in Draws : ChooseNode(r)
    \/ selection = NoSelection /\ \E k \in 1..Len(graph.nodes) : \E r \in Draws : ChooseEdge(k, r)

SpecChoose == Init /\ [][NextChoose]_vars

\* dataset mode, sequences generated and played back
NextPlay ==
    \/ handleSelectDatasetMode
    \/ \E vals \in PlayInputs : UpdateGraph(vals)
    \/ \E n \in LengthLimits : handleChangeLengthLimit(n)
    \/ Play
    \/ Pause
    \/ Resume
    \/ StepNew
    \/ StepOn
    \/ TimerFires
    \/ FinishResumes

SpecPlay == Init /\ [][NextPlay]_vars

\* dataset mode, sequences of the initial Max Length played back and the
\* output cleared, a run started only while the history is short
NextHistory ==
    \/ handleSelectDatasetMode
    \/ \E vals \in PlayInputs : UpdateGraph(vals)
    \/ RoomForRun /\ Play
    \/ Pause
    \/ Resume
    \/ RoomForRun /\ StepNew
    \/ StepOn
    \/ ClearOutput
    \/ TimerFires
    \/ FinishResumes

SpecHistory == Init /\ [][NextHistory]_vars

\* dataset mode, sequences generated from a chosen starting state and
\* stepped through while the data changes
NextStart ==
    \/ handleSelectDatasetMode
    \/ \E vals \in StartInputs : UpdateGraph(vals)
    \/ \E id \in NodeIds(graph) \cup {""} : handleChangeStartingState(id)
    \/ RoomForRun /\ StepNew
    \/ StepOn
    \/ FinishResumes

SpecStart == Init /\ [][NextStart]_vars

\* dataset mode, runs started with the Max Length and Delimiter fields
\* changed between them
NextGroups ==
    \/ handleSelectDatasetMode
    \/ \E vals \in GroupInputs : UpdateGraph(vals)
    \/ \E n \in GroupLimits : handleChangeLengthLimit(n)
    \/ \E d \in Delimiters : handleChangeDelimiter(d)
    \/ Play
    \/ StepNew
    \/ StepOn
    \/ TimerFires
    \/ FinishResumes

SpecGroups == Init /\ [][NextGroups]_vars

\* dataset mode, sequences of the initial Max Length on a chain with one
\* state played back and stepped through
NextLoop ==
    \/ handleSelectDatasetMode
    \/ \E vals \in LoopInputs : UpdateGraph(vals)
    \/ Play
    \/ StepNew
    \/ StepOn
    \/ TimerFires
    \/ FinishResumes

SpecLoop == Init /\ [][NextLoop]_vars

\* dataset mode, sequences played back to their end: the data, the Max
\* Length and Play are events of ready mode, and between Play and the return
\* to ready mode only the interval and the export act.  An interval that is
\* set fires again and again, and a call of outputToDataset resolves.
NextLive ==
    \/ generationMode = "ready" /\ handleSelectDatasetMode
    \/ generationMode = "ready" /\ \E vals \in PlayInputs : UpdateGraph(vals)
    \/ generationMode = "ready" /\ \E n \in LengthLimits : handleChangeLengthLimit(n)
    \/ generationMode = "ready" /\ Play
    \/ TimerFires
    \/ FinishResumes

SpecLive ==
    Init /\ [][NextLive]_vars /\ WF_vars(TimerFires) /\ WF_vars(FinishResumes)

\* dataset mode, sequences played back and stepped through while the data
\* changes
NextRebuild ==
    \/ handleSelectDatasetMode
    \/ \E vals \in StartInputs : UpdateGraph(vals)
    \/ RoomForRun /\ Play
    \/ Pause
    \/ Resume
    \/ RoomForRun /\ StepNew
    \/ StepOn
    \/ TimerFires
    \/ FinishResumes

SpecRebuild == Init /\ [][NextRebuild]_vars

\* dataset mode, attributes dropped on the plugin and cases changed in
\* the host, the requests for the values answered in any order
NextData ==
    \/ handleSelectDatasetMode
    \/ \E a \in Attributes : handleDrop(a)
    \/ \E a \in Attributes : \E vals \in HostLists : handleCasesChanged(a, vals)
    \/ \E k \in 1..Len(fetches) : handleDataChangedResumed(k)

SpecData == Init /\ [][NextData]_vars

\* the chain rebuilt from data in dataset mode, drawn and erased by hand
\* in drawing mode, the two modes entered from the main menu
NextEdit ==
    \/ handleSelectDatasetMode
    \/ handleSelectDrawingMode
    \/ handleReturnToMainMenu
    \/ \E vals \in EditInputs : UpdateGraph(vals)
    \/ \E i \in 1..MaxDrawNodes : DrawIds[i] \notin NodeIds(graph) /\ AddNode(DrawIds[i])
    \/ \E from, to \in NodeIds(graph) : AddEdge(from, to)
    \/ \E id \in NodeIds(graph) : \E onLoop \in BOOLEAN : DeleteNode(id, onLoop)
    \/ \E e \in EdgePairs(graph) : DeleteEdge(e[1], e[2])

SpecEdit == Init /\ [][NextEdit]_vars

\* drawing mode in the Drawing that numbers its nodes: states and
\* transitions added and deleted, and sequences generated from the chain
NextNumbered ==
    \/ handleSelectDrawingMode
    \/ AddNodeNumbered
    \/ \E from, to \in NodeIds(graph) : AddEdge(from, to)
    \/ \E id \in NodeIds(graph) : \E onLoop \in BOOLEAN : DeleteNode(id, onLoop)
    \/ \E e \in EdgePairs(graph) : DeleteEdge(e[1], e[2])
    \/ \E limit \in 0..MaxLimit : Generate(limit)

SpecNumbered == Init /\ [][NextNumbered]_vars

\* the whole plugin
Next ==
    \/ handleSelectDatasetMode
    \/ handleSelectDrawingMode
    \/ handleReset
    \/ handleReturnToMainMenu
    \/ \E vals \in SpecInputs : UpdateGraph(vals)
    \/ Draw
    \/ \E limit \in 0..MaxLimit : Generate(limit)
    \/ \E r \in Draws : ChooseNode(r)
    \/ \E k \in 1..Len(graph.nodes) : \E r \in Draws : ChooseEdge(k, r)
    \/ \E n \in LengthLimits : handleChangeLengthLimit(n)
    \/ \E d \in Delimiters : handleChangeDelimiter(d)
    \/ \E id \in NodeIds(graph) \cup {""} : handleChangeStartingState(id)
    \/ Play
    \/ Pause
    \/ Resume
    \/ StepNew
    \/ StepOn
    \/ ClearOutput
    \/ TimerFires
    \/ FinishResumes
    \/ \E a \in Attributes : handleDrop(a)
    \/ \E a \in Attributes : \E vals \in HostLists : handleCasesChanged(a, vals)
    \/ \E k \in 1..Len(fetches) : handleDataChangedResumed(k)
    \/ \E id \in NodeIds(graph) : \E onLoop \in BOOLEAN : DeleteNode(id, onLoop)
    \/ \E e \in EdgePairs(graph) : DeleteEdge(e[1], e[2])
    \/ AddNodeNumbered

Spec == Init /\ [][Next]_vars

----------------------------------------------------------------------------
(* What an observation list says, read off the list itself *)

Range(seq) == {seq[i] : i \in 1..Len(seq)}

\* the positions at which x is observed
Occurrences(vals, x) == {i \in 1..Len(vals) : vals[i] = x}

\* the positions at which a is directly followed by b
AdjacentPairs(vals, a, b) ==
    {i \in 1..(Len(vals) - 1) : vals[i] = a /\ vals[i + 1] = b}

FirstOccurrence(vals, x) ==
    CHOOSE i \in Occurrences(vals, x) : \A j \in Occurrences(vals, x) : i <= j

ObservedStates(vals) == Range(vals) \ {""}

ObservedPairs(vals) ==
    {<<vals[i], vals[i + 1]>> : i \in {j \in 1..(Len(vals) - 1) : vals[j] # "" /\ vals[j + 1] # ""}}

GraphRPS ==
    [nodes |-> << [id |-> "R", label |-> "R", value |-> 3],
                  [id |-> "P", label |-> "P", value |-> 2],
                  [id |-> "S", label |-> "S", value |-> 1] >>,
     edges |-> << [from |-> "R", to |-> "P", value |-> 2],
                  [from |-> "P", to |-> "R", value |-> 1],
                  [from |-> "P", to |-> "S", value |-> 1],
                  [from |-> "S", to |-> "R", value |-> 1] >>]

\* C1: the model built from an observation list has one state per distinct
\* non-empty value, in order of first occurrence, weighted by its number of
\* occurrences, and one transition per ordered pair of adjacent non-empty
\* values, weighted by the number of such adjacencies; [R,P,R,P,S,R] gives
\* R:3, P:2, S:1 and R->P:2, P->R:1, P->S:1, S->R:1.
C1_ExactModel ==
    /\ NodeIds(graph) = ObservedStates(values)
    /\ Len(graph.nodes) = Cardinality(ObservedStates(values))
    /\ \A k \in 1..Len(graph.nodes) :
          /\ graph.nodes[k].label = graph.nodes[k].id
          /\ graph.nodes[k].value = Cardinality(Occurrences(values, graph.nodes[k].id))
          /\ \A l \in (k + 1)..Len(graph.nodes) :
                FirstOccurrence(values, graph.nodes[k].id)
                    < FirstOccurrence(values, graph.nodes[l].id)
    /\ EdgePairs(graph) = ObservedPairs(values)
    /\ Len(graph.edges) = Cardinality(ObservedPairs(values))
    /\ \A k \in 1..Len(graph.edges) :
          graph.edges[k].value
              = Cardinality(AdjacentPairs(values, graph.edges[k].from, graph.edges[k].to))
    /\ (values = ScenarioRPS => graph = GraphRPS)

C1_Witness == values = ScenarioRPS /\ graph = GraphRPS

\* C2: a separator creates no state and no transition, and the observations
\* on either side of it are not joined: a transition only ever counts
\* directly adjacent observations, so [A,B,"",C,D] gives A->B and C->D only.
C2_Separator ==
    /\ "" \notin NodeIds(graph)
    /\ \A k \in 1..Len(graph.edges) :
          /\ graph.edges[k].from # "" /\ graph.edges[k].to # ""
          /\ graph.edges[k].value
                <= Cardinality(AdjacentPairs(values, graph.edges[k].from, graph.edges[k].to))
    /\ (values = ScenarioSeparator => EdgePairs(graph) = {<<"A", "B">>, <<"C", "D">>})

C2_Witness ==
    /\ values = ScenarioSeparator
    /\ graph.edges = << [from |-> "A", to |-> "B", value |-> 1],
                        [from |-> "C", to |-> "D", value |-> 1] >>

\* C3: for a list of n >= 1 observations without separator the transition
\* weights sum to n - 1, and every observed value has a state whose weight
\* is at least its number of occurrences.
C3_TransitionCount ==
    (Len(values) >= 1 /\ "" \notin Range(values)) =>
        /\ SumValues(graph.edges) = Len(values) - 1
        /\ \A x \in Range(values) :
              \E k \in 1..Len(graph.nodes) :
                  /\ graph.nodes[k].id = x
                  /\ graph.nodes[k].value >= Cardinality(Occurrences(values, x))

C3_Witness ==
    /\ values = <<"A", "A", "B", "A">>
    /\ SumValues(graph.edges) = 3

\* C4: no two states of a built model have the same id and no two
\* transitions the same ordered pair: a repeated observation or pair
\* increments the entry that exists.
C4_NoDuplicates ==
    /\ \A k, l \in 1..Len(graph.nodes) :
          graph.nodes[k].id = graph.nodes[l].id => k = l
    /\ \A k, l \in 1..Len(graph.edges) :
          (graph.edges[k].from = graph.edges[l].from /\ graph.edges[k].to = graph.edges[l].to)
              => k = l

C4_Witness ==
    /\ values = <<"A", "B", "A", "B">>
    /\ graph.nodes = << [id |-> "A", label |-> "A", value |-> 2],
                        [id |-> "B", label |-> "B", value |-> 2] >>
    /\ graph.edges = << [from |-> "A", to |-> "B", value |-> 2],
                        [from |-> "B", to |-> "A", value |-> 1] >>

\* C5: a rebuild replaces the model: whatever model was there before, the
\* new one is the one the same list gives from the empty model (nothing of
\* the old model is left in it), and a rebuild from the list the model was
\* built from changes nothing.
C5_Replacement ==
    [][ /\ NodeIds(graph') \subseteq ObservedStates(values')
        /\ EdgePairs(graph') \subseteq ObservedPairs(values')
        /\ SumValues(graph'.nodes) = Cardinality({i \in 1..Len(values') : values'[i] # ""})
        /\ SumValues(graph'.edges)
             = Cardinality({i \in 1..(Len(values') - 1) : values'[i] # "" /\ values'[i + 1] # ""})
        /\ (values' = values => graph' = graph)
      ]_vars

C5_Witness ==
    /\ values = <<"B", "B">>
    /\ graph.nodes = << [id |-> "B", label |-> "B", value |-> 2] >>
    /\ graph.edges = << [from |-> "B", to |-> "B", value |-> 1] >>

\* C6: the empty observation list, and a list of separators only, give the
\* empty model: no states and no transitions.
C6_EmptyInput ==
    (\A i \in 1..Len(values) : values[i] = "") => graph = EmptyGraph

C6_Witness == values = <<"", "">> /\ graph = EmptyGraph

----------------------------------------------------------------------------
(* Claims about generate.  A step that changes options or generatedResult  *)
(* is a call of generate on the graph of that step.                        *)

GenerateStep == <<options, generatedResult>>' # <<options, generatedResult>>

\* the node a generated label stands for
NodeOf(g, label) == g.nodes[FindNodeByLabel(g.nodes, label)]

\* a state without outgoing transitions
DeadEnd(g, label) == EdgesFrom(g, NodeOf(g, label)) = <<>>

ChainAB ==
    [nodes |-> << [id |-> "A", label |-> "A", value |-> 1],
                  [id |-> "B", label |-> "B", value |-> 1] >>,
     edges |-> << [from |-> "A", to |-> "B", value |-> 1] >>]

\* C7, as claimed: for every model and lengthLimit N the generated sequence
\* is at most N long, and exactly N long unless its last state is a dead end.
C7_LengthBound_Claimed ==
    [][GenerateStep =>
          /\ Len(generatedResult') <= options'.lengthLimit
          /\ \/ Len(generatedResult') = options'.lengthLimit
             \/ /\ generatedResult' # <<>>
                /\ DeadEnd(graph, generatedResult'[Len(generatedResult')])
      ]_vars

\* C7, amended: the generated sequence is at most N long, and exactly N long
\* unless the model has no state (the sequence is then empty) or the walk
\* reached a dead end.
C7_LengthBound ==
    [][GenerateStep =>
          /\ Len(generatedResult') <= options'.lengthLimit
          /\ \/ Len(generatedResult') = options'.lengthLimit
             \/ graph.nodes = <<>> /\ generatedResult' = <<>>
             \/ /\ generatedResult' # <<>>
                /\ DeadEnd(graph, generatedResult'[Len(generatedResult')])
      ]_vars

C7_Witness ==
    /\ values = <<"A", "B", "A">>
    /\ Len(graph.edges) = 2
    /\ options.lengthLimit = 4
    /\ generatedResult = <<"A", "B", "A", "B">>

\* C8: a state without outgoing transitions ends the walk and is the last
\* element of the result; in the chain A->B, with lengthLimit 5, a walk that
\* starts at A returns exactly [A, B].
C8_DeadEndStops ==
    [][GenerateStep =>
          /\ \A i \in 1..Len(generatedResult') :
                DeadEnd(graph, generatedResult'[i]) => i = Len(generatedResult')
          /\ ( /\ graph = ChainAB
               /\ options'.lengthLimit = 5
               /\ generatedResult' # <<>>
               /\ generatedResult'[1] = "A" )
                 => generatedResult' = <<"A", "B">>
      ]_vars

C8_Witness ==
    /\ graph = ChainAB
    /\ options.lengthLimit = 5
    /\ generatedResult = <<"A", "B">>

\* C9: in a chain whose only state is A and whose only transition is A->A
\* with weight 1, generate with lengthLimit 3 returns [A, A, A] whatever
\* Math.random() returns.
C9_SelfLoop ==
    [][(GenerateStep
          /\ Len(graph.nodes) = 1
          /\ graph.edges = << [from |-> graph.nodes[1].id, to |-> graph.nodes[1].id,
                               value |-> 1] >>
          /\ options'.lengthLimit = 3)
        => generatedResult'
             = <<graph.nodes[1].label, graph.nodes[1].label, graph.nodes[1].label>>
      ]_vars

C9_Witness ==
    /\ graph.nodes = << [id |-> "A", label |-> "A", value |-> 2] >>
    /\ graph.edges = << [from |-> "A", to |-> "A", value |-> 1] >>
    /\ options.lengthLimit = 3
    /\ generatedResult = <<"A", "A", "A">>

\* C10: weighted selection never returns a candidate of weight 0 while a
\* candidate of positive weight exists: the first state of a generated
\* sequence, and every transition the sequence follows, has a positive
\* weight unless all the candidates it was chosen among have weight 0.
C10_ZeroWeightNeverChosen ==
    [][GenerateStep =>
          /\ generatedResult' # <<>> =>
                \/ NodeOf(graph, generatedResult'[1]).value > 0
                \/ \A k \in 1..Len(graph.nodes) : graph.nodes[k].value = 0
          /\ \A i \in 1..(Len(generatedResult') - 1) :
                LET iNode == NodeOf(graph, generatedResult'[i])
                    target == NodeOf(graph, generatedResult'[i + 1])
                    edges == EdgesFrom(graph, iNode)
                IN \/ graph.edges[FindEdge(graph.edges, iNode.id, target.id)].value > 0
                   \/ \A k \in 1..Len(edges) : edges[k].value = 0
      ]_vars

----------------------------------------------------------------------------
(* Claims about the weighted choice.  A step that changes selection is a   *)
(* call of chooseRandomNode or chooseRandomEdge on the graph of that step. *)

SelectionStep == selection' # selection

\* the candidates of a call, in insertion order
Candidates(g, sel) ==
    IF sel.kind = "node" THEN g.nodes ELSE EdgesFrom(g, [id |-> sel.from])

\* w1 + ... + wi
RECURSIVE CumulativeWeight(_, _)
CumulativeWeight(cands, i) ==
    IF i = 0 THEN 0 ELSE cands[i].value + CumulativeWeight(cands, i - 1)

\* C11: when exactly one candidate has a weight above 0, the weighted choice
\* returns that candidate whatever the draw is.
C11_OnlyEligibleChosen ==
    [][SelectionStep =>
          LET cands == Candidates(graph, selection')
              eligible == {i \in 1..Len(cands) : cands[i].value > 0}
          IN Cardinality(eligible) = 1 =>
                \A i \in eligible : selection'.chosen = <<cands[i]>>
      ]_vars

\* C15: with the candidates in insertion order and the draw r in [0, total),
\* the choice returns the first candidate whose cumulative weight is >= r,
\* for the first state (weights of the states) and for a transition (weights
\* of the transitions out of a state) alike; r is draw * total / DrawSteps.
C15_Roulette ==
    [][SelectionStep =>
          LET cands == Candidates(graph, selection')
              total == CumulativeWeight(cands, Len(cands))
              reached(i) == CumulativeWeight(cands, i) * DrawSteps >= selection'.draw * total
              firsts == {i \in 1..Len(cands) : reached(i) /\ \A j \in 1..(i - 1) : ~reached(j)}
          IN /\ firsts = {} => selection'.chosen = <<>>
             /\ \A i \in firsts : selection'.chosen = <<cands[i]>>
      ]_vars

\* the second of two states was chosen, by a draw in the upper part of the
\* range
C15_Witness ==
    /\ selection.kind = "node"
    /\ selection.draw = DrawSteps - 1
    /\ Len(graph.nodes) = 2
    /\ graph.nodes[1].value > 0
    /\ selection.chosen = <<graph.nodes[2]>>

----------------------------------------------------------------------------
(* Claims about the start of a run and its end *)

Last(seq) == seq[Len(seq)]
Front(seq) == SubSeq(seq, 1, Len(seq) - 1)

\* a step that resolves one pending call of outputToDataset
FinishStep == Len(pendingFinishes') < Len(pendingFinishes)

\* a step that calls outputToDataset
SinkStep == Len(pendingFinishes') > Len(pendingFinishes)

C13_UnknownStartIsEmpty ==
    [][((Play \/ StepNew) /\
          (graph.nodes = <<>> \/ (startingState # "" /\ startingState \notin NodeIds(graph)))) =>
          currentSequence' = <<>>
      ]_vars

\* C14: play or step whose generation yields a sequence of length 0 does
\* nothing: the output history is as before, no call of the export is
\* started, and the mode is ready when the handler returns.
C14_EmptyRunIsNoOp ==
    [][((Play \/ StepNew) /\ currentSequence' = <<>>) =>
          /\ sequenceGroups' = sequenceGroups
          /\ pendingFinishes' = pendingFinishes
          /\ generationMode' = "ready"
      ]_vars

\* the changes of mode the sequencer is specified to make
AllowedModeChanges ==
    {<<"ready", "playing">>, <<"playing", "paused">>, <<"paused", "playing">>,
     <<"ready", "stepping">>, <<"playing", "ready">>, <<"paused", "ready">>,
     <<"stepping", "ready">>}

\* C16: every change of generationMode is ready->playing, playing->paused,
\* paused->playing, ready->stepping, or playing/paused/stepping->ready.
C16_ModeChanges ==
    [][generationMode' # generationMode =>
          <<generationMode, generationMode'>> \in AllowedModeChanges]_vars

\* C18: when a finish completes, the mode is ready, the last sequence of the
\* current group is the sequence that finish was started with (the whole
\* generated sequence of its run), and the sequences before it in the group
\* and the groups before it are those of the start of the run.
C18_FinishCommitsItsSequence ==
    [][FinishStep =>
          \E k \in 1..Len(pendingFinishes) :
             /\ pendingFinishes' = SubSeq(pendingFinishes, 1, k - 1)
                                      \o SubSeq(pendingFinishes, k + 1, Len(pendingFinishes))
             /\ generationMode' = "ready"
             /\ sequenceGroups' # <<>>
             /\ Last(sequenceGroups').sequences # <<>>
             /\ Last(Last(sequenceGroups').sequences) = pendingFinishes[k]
             /\ Front(Last(sequenceGroups').sequences) = prevSequences
             /\ Front(sequenceGroups') = prevAnimatedSequenceGroups
      ]_vars

\* C19: outputToDataset is called once for a run that finishes, with the
\* whole generated sequence: a call is never started for a sequence for
\* which one was started before.
C19_SinkCalledOnce ==
    [][SinkStep =>
          /\ ~sinkCalled
          /\ Last(pendingFinishes') = currentSequence'
      ]_vars

\* C20: when the export fails (the call resolves without a row written),
\* finish still commits: the mode becomes ready, the last sequence of the
\* current group is the generated sequence, and the rest of the history is
\* as it was at the start of the run.
C20_SinkFailureRecovered ==
    [][(FinishStep /\ exported' = exported) =>
          /\ generationMode' = "ready"
          /\ sequenceGroups' # <<>>
          /\ Last(sequenceGroups').sequences # <<>>
          /\ Last(Last(sequenceGroups').sequences) = currentSequence
          /\ Front(Last(sequenceGroups').sequences) = prevSequences
          /\ Front(sequenceGroups') = prevAnimatedSequenceGroups
          /\ currentSequence' = currentSequence
      ]_vars

\* a run whose export failed: its sequence is in the history, the mode is
\* ready, and the output dataset has no row
C20_Witness ==
    /\ generationMode = "ready"
    /\ sinkCalled
    /\ pendingFinishes = <<>>
    /\ exported = <<>>
    /\ Len(currentSequence) = 2
    /\ sequenceGroups # <<>>
    /\ Last(sequenceGroups).sequences = <<currentSequence>>

----------------------------------------------------------------------------
(* Claims about the output history *)

\* the parameters a group was created with
Parameters(group) == <<group.startingState, group.lengthLimit, group.delimiter>>

\* the parameters in the fields
CurrentParameters == <<startingState, lengthLimit, delimiter>>

\* C21: on play or step from ready, the last group of the history is
\* reused (the run's sequence is added to it and no group is added) if and
\* only if its recorded parameters equal the current ones; otherwise a new
\* group with the current parameters and that one sequence is appended,
\* also when an older group has these parameters.
C21_GroupMatching ==
    [][((Play \/ StepNew) /\ generationMode = "ready") =>
          IF sequenceGroups # <<>> /\ Parameters(Last(sequenceGroups)) = CurrentParameters
          THEN /\ Len(sequenceGroups') = Len(sequenceGroups)
               /\ Front(sequenceGroups') = Front(sequenceGroups)
               /\ Parameters(Last(sequenceGroups')) = CurrentParameters
               /\ Front(Last(sequenceGroups').sequences) = Last(sequenceGroups).sequences
          ELSE /\ Front(sequenceGroups') = sequenceGroups
               /\ Parameters(Last(sequenceGroups')) = CurrentParameters
               /\ Len(Last(sequenceGroups').sequences) = 1
      ]_vars

\* three finished runs, the Max Length or Delimiter changed before the
\* second and changed back before the third: three groups of one sequence,
\* the first and the third with the same parameters
C21_Witness ==
    /\ generationMode = "ready"
    /\ pendingFinishes = <<>>
    /\ Len(sequenceGroups) = 3
    /\ Parameters(sequenceGroups[1]) = Parameters(sequenceGroups[3])
    /\ Parameters(sequenceGroups[2]) # Parameters(sequenceGroups[1])
    /\ \A i \in 1..3 : Len(sequenceGroups[i].sequences) = 1

\* a is an initial part of b
IsPrefix(a, b) == Len(a) <= Len(b) /\ SubSeq(b, 1, Len(a)) = a

\* the sequences of the i-th group that a finish has committed: all of them,
\* but for the sequence of the run in progress at the end of the last group
Committed(i) ==
    IF i = Len(sequenceGroups) /\ generationMode # "ready"
    THEN Front(sequenceGroups[i].sequences)
    ELSE sequenceGroups[i].sequences

\* C22: but for clearOutput, every step keeps every group at its place in
\* the history with its parameters, and keeps the sequences a finish has
\* committed, in their order, at the front of their group.
C22_AppendOnly ==
    [][~ClearOutput =>
          /\ Len(sequenceGroups') >= Len(sequenceGroups)
          /\ \A i \in 1..Len(sequenceGroups) :
                /\ Parameters(sequenceGroups'[i]) = Parameters(sequenceGroups[i])
                /\ IsPrefix(Committed(i), sequenceGroups'[i].sequences)
      ]_vars

\* C23: clearOutput is taken in ready mode only, empties the history and
\* leaves the mode, the chain and the parameters as they are; the emptied
\* history stays empty until a play or step, which makes it one new group
\* with the current parameters and the sequence of that run.
C23_ClearOutput ==
    [][/\ ClearOutput =>
             /\ generationMode = "ready"
             /\ sequenceGroups' = <<>>
             /\ UNCHANGED <<generationMode, graph, paramVars>>
       /\ (sequenceGroups = <<>> /\ sequenceGroups' # <<>>) =>
             /\ Play \/ StepNew
             /\ Len(sequenceGroups') = 1
             /\ Parameters(sequenceGroups'[1]) = CurrentParameters
             /\ Len(sequenceGroups'[1].sequences) = 1
      ]_vars

----------------------------------------------------------------------------
(* Claims about pause, resume and step *)

\* where the run is: the cursor, its sub-step and the sequence
cursor == <<currentSequenceIndex, currentAnimationStep, currentSequence>>

\* C24: pause sets the mode to paused and leaves no interval set, with the
\* cursor, the sub-step, the sequence and the history as they were; while
\* the mode is paused no interval is set, so that nothing advances the
\* cursor but a step.
C24_Pause ==
    [][/\ Pause =>
             /\ generationMode' = "paused"
             /\ timers' = {}
             /\ UNCHANGED <<cursor, sequenceGroups>>
       /\ generationMode' = "paused" => timers' = {}
      ]_vars

\* the cursor is before the last position of the sequence
Animating == currentSequenceIndex < Len(currentSequence) - 1

\* C25: resume, when the cursor is before the last position, sets one more
\* interval, which becomes the current one, and sets the mode to playing
\* with the cursor, the sequence and the history unchanged; when the cursor
\* is at the last position it sets no interval and starts the finish (the
\* export of the sequence is called), and the finish sets the mode to ready
\* when it completes.
C25_Resume ==
    [][/\ (Resume /\ Animating) =>
             /\ generationMode' = "playing"
             /\ \E t \in timers' : /\ t \notin timers
                                   /\ timers' = timers \cup {t}
                                   /\ animationInterval' = t.id
             /\ UNCHANGED <<cursor, sequenceGroups, pendingFinishes>>
       /\ (Resume /\ ~Animating) =>
             /\ timers' \subseteq timers
             /\ pendingFinishes' = Append(pendingFinishes, currentSequence)
             /\ UNCHANGED <<cursor, sequenceGroups>>
       /\ (FinishStep /\ generationMode = "paused") => generationMode' = "ready"
      ]_vars

\* a run of one state paused before its first tick and resumed: the cursor
\* is at the last position, the export of the sequence has been called, no
\* interval is set and the mode is still paused until the call resolves
C25_Witness ==
    /\ generationMode = "paused"
    /\ ~Animating
    /\ Len(currentSequence) = 1
    /\ sinkCalled
    /\ pendingFinishes = <<currentSequence>>
    /\ timers = {}

\* the cursor moves by one sub-step: from 'before' to 'after' at the same
\* index, or from 'after' to 'before' at the next index
OneSubStep ==
    /\ currentSequence' = currentSequence
    /\ \/ /\ currentAnimationStep = "before"
          /\ currentAnimationStep' = "after"
          /\ currentSequenceIndex' = currentSequenceIndex
       \/ /\ currentAnimationStep = "after"
          /\ currentAnimationStep' = "before"
          /\ currentSequenceIndex' = currentSequenceIndex + 1

\* step from ready: a sequence is generated as for play, its first sub-step
\* is shown, the mode is stepping, no interval is set and no finish started
FirstSubStepShown ==
    /\ generationMode' = "stepping"
    /\ currentSequence' \in GeneratedSequences
    /\ currentSequenceIndex' = 0
    /\ currentAnimationStep' = "before"
    /\ Last(Last(sequenceGroups').sequences) =
           SubSeq(currentSequence', 1, Min(1, Len(currentSequence')))
    /\ UNCHANGED <<timers, pendingFinishes>>

\* C26 as claimed: step from ready shows the first sub-step of a new
\* sequence without an interval; every step from stepping or paused moves
\* the cursor by exactly one sub-step, and starts the finish exactly when
\* the cursor has then reached the last position.
C26_Step_Claimed ==
    [][/\ StepNew => FirstSubStepShown
       /\ StepOn =>
             /\ OneSubStep
             /\ SinkStep <=> ~Animating'
      ]_vars

\* C26: step from ready shows the first sub-step of a new sequence without
\* an interval; step from stepping or paused with the cursor before the last
\* position moves it by exactly one sub-step and starts the finish exactly
\* when the cursor has then reached the last position; with the cursor at
\* the last position already, it starts the finish and leaves the cursor.
C26_Step ==
    [][/\ StepNew => FirstSubStepShown
       /\ (StepOn /\ Animating) =>
             /\ OneSubStep
             /\ SinkStep <=> ~Animating'
             /\ timers' \subseteq timers
       /\ (StepOn /\ ~Animating) =>
             /\ UNCHANGED cursor
             /\ pendingFinishes' = Append(pendingFinishes, currentSequence)
             /\ timers' \subseteq timers
      ]_vars

\* a run of one state started by step and stepped once more: the finish
\* is started with the cursor where the first step left it
C26_Witness ==
    /\ generationMode = "stepping"
    /\ Len(currentSequence) = 1
    /\ currentSequenceIndex = 0
    /\ currentAnimationStep = "before"
    /\ pendingFinishes = <<currentSequence>>
    /\ timers = {}

----------------------------------------------------------------------------
(* Claims about the interval *)

\* C27: at most one interval is set at any moment, and the interval that
\* is set is the one whose id animationInterval holds, so that
\* stopAnimationInterval stops it.
C27_OneTimer ==
    /\ Cardinality(timers) <= 1
    /\ \A t \in timers : t.id = animationInterval

\* the number of sub-steps between the first sub-step and the cursor
Position == 2 * currentSequenceIndex + (IF currentAnimationStep = "after" THEN 1 ELSE 0)

\* C28: in playing mode every move of the cursor is an advance by one
\* sub-step and the cursor stays within twice the length of the sequence,
\* so that at most that many advances are applied; and a run that is
\* playing leads to ready mode with the finish completed: no interval set,
\* no export pending, the cursor at the last position and the whole
\* sequence at the end of the history.
C28_PlayTerminates ==
    /\ [][(generationMode = "playing" /\ cursor' # cursor) =>
            /\ OneSubStep
            /\ Position' = Position + 1
            /\ Position' <= 2 * Len(currentSequence)
        ]_vars
    /\ (generationMode = "playing") ~>
            (/\ generationMode = "ready"
             /\ timers = {}
             /\ pendingFinishes = <<>>
             /\ sinkCalled
             /\ ~Animating
             /\ Last(Last(sequenceGroups).sequences) = currentSequence)

\* a sequence of two states played to its end by the interval
C28_Witness ==
    /\ generationMode = "ready"
    /\ timers = {}
    /\ pendingFinishes = <<>>
    /\ sinkCalled
    /\ Len(currentSequence) = 2
    /\ Position = 2
    /\ Last(Last(sequenceGroups).sequences) = currentSequence

----------------------------------------------------------------------------
(* Claims about the sub-steps and the highlights *)

\* the sequence shown at the end of the history
Displayed == Last(Last(sequenceGroups).sequences)

\* C29: the cursor moves only by one sub-step at a time within a run
\* ('before' to 'after' at the same index, 'after' to 'before' at the next
\* index); during a run the cursor index is at most the last position and
\* the sequence shown at the end of the history is the initial part of the
\* generated sequence of length index+1 in a 'before' sub-step and index+2
\* in an 'after' sub-step, which is at most the length of that sequence.
C29_SubSteps ==
    [][/\ (cursor' # cursor /\ ~(Play \/ StepNew)) => OneSubStep
       /\ generationMode' # "ready" =>
             /\ currentSequenceIndex' <= Len(currentSequence') - 1
             /\ sequenceGroups' # <<>>
             /\ Len(Displayed') =
                    currentSequenceIndex' + (IF currentAnimationStep' = "before" THEN 1 ELSE 2)
             /\ Len(Displayed') <= Len(currentSequence')
             /\ IsPrefix(Displayed', currentSequence')
      ]_vars

\* C30: when the mode is ready, no node, edge or loop is highlighted and
\* the highlight of all next nodes is off.
C30_ReadyIsCleared ==
    generationMode = "ready" => highlight = NoHighlight

----------------------------------------------------------------------------
(* Claims about the chain changing under a run *)

\* C31: a rebuild of the chain during a run leaves the sequence, the
\* cursor, the mode and the history as they are; the sequence of a run
\* changes only at play or step from ready, to a sequence generated from
\* the chain of that moment, and a finish commits that sequence as it is.
C31_RebuildDuringRun ==
    [][/\ (values' # values /\ generationMode # "ready") =>
             UNCHANGED <<cursor, generationMode, sequenceGroups, pendingFinishes>>
       /\ currentSequence' # currentSequence =>
             /\ Play \/ StepNew
             /\ currentSequence' \in GeneratedSequences
       /\ FinishStep =>
             /\ currentSequence' = currentSequence
             /\ Last(Last(sequenceGroups').sequences) = currentSequence
      ]_vars

\* a run on the chain A -> B in its second sub-step, the data having
\* changed to the one state B since it was started
C31_Witness ==
    /\ generationMode \in {"playing", "paused", "stepping"}
    /\ Len(graph.nodes) = 1
    /\ Len(currentSequence) = 2
    /\ currentSequence[1].id = "A"
    /\ currentSequenceIndex = 0
    /\ currentAnimationStep = "after"
    /\ Displayed = currentSequence

----------------------------------------------------------------------------
(* Claims about the data of the host *)

\* C32: in dataset mode with an attribute watched and no request for
\* values waiting, the chain is the one built from the values the host has
\* for that attribute, which are those of the last request made for it.
C32_ModelFollowsData ==
    (viewMode = "dataset" /\ attribute # "" /\ fetches = <<>>) =>
        graph = updateGraph(hostData[attribute])

----------------------------------------------------------------------------
(* Claims about the interval and the mode *)

\* C33: an interval is set only while the mode is playing, so that no
\* tick of an interval finds the mode ready, paused or stepping.
C33_TimerOnlyWhilePlaying ==
    timers # {} => generationMode = "playing"

----------------------------------------------------------------------------
(* Claims about the sequences kept in the history *)

\* the sequences generate can return on the chain for the parameters of a
\* group: walks that ran to the Max Length of the group or to a dead end
CompleteSequences(group) ==
    generateNodes(graph, [startingNode |-> StartingNode(graph, group.startingState),
                          lengthLimit |-> group.lengthLimit])

\* C34: in ready mode every sequence of every group of the history is a
\* whole generated sequence, none the animated prefix of a run that was
\* left before its end.
C34_ReadyHistoryIsComplete ==
    generationMode = "ready" =>
        \A i \in 1..Len(sequenceGroups) :
            \A j \in 1..Len(sequenceGroups[i].sequences) :
                sequenceGroups[i].sequences[j] \in CompleteSequences(sequenceGroups[i])

----------------------------------------------------------------------------
(* Claims about the sequences and the chain they are generated from *)

\* C35: every element of a sequence generated from a chain that
\* updateGraph built is the label of a state of that chain, and every two
\* neighbours of the sequence are joined, in their order, by a transition
\* of that chain.
C35_SequenceFollowsModel ==
    [][GenerateStep =>
          /\ \A i \in 1..Len(generatedResult') :
                FindNodeByLabel(graph.nodes, generatedResult'[i]) # 0
          /\ \A i \in 1..(Len(generatedResult') - 1) :
                FindEdge(graph.edges, NodeOf(graph, generatedResult'[i]).id,
                                      NodeOf(graph, generatedResult'[i + 1]).id) # 0
      ]_vars

\* a sequence that stays in A once and then moves on to the dead end B
C35_Witness ==
    /\ values = <<"A", "A", "B">>
    /\ Len(graph.edges) = 2
    /\ options.lengthLimit = 5
    /\ generatedResult = <<"A", "A", "B">>

----------------------------------------------------------------------------
(* Claims about the weights of a chain built from data *)

\* graph.edges.filter(iEdge => iEdge.to === iNode.id)
EdgesTo(g, iNode) == SelectSeq(g.edges, LAMBDA e : e.to = iNode.id)

\* no separator among the observations
SeparatorFree(vals) == \A i \in 1..Len(vals) : vals[i] # ""

\* C36: in a chain built by updateGraph the weights of the transitions
\* that leave a state add up to at most the weight of the state, and so do
\* those of the transitions that enter it; when the observations hold no
\* separator the outgoing weights add up to the weight of the state, but
\* for the state of the last observation, where they add up to one less,
\* so that at most one state is a dead end.
C36_WeightsBounded ==
    /\ \A k \in 1..Len(graph.nodes) :
          /\ SumValues(EdgesFrom(graph, graph.nodes[k])) <= graph.nodes[k].value
          /\ SumValues(EdgesTo(graph, graph.nodes[k])) <= graph.nodes[k].value
    /\ (values # <<>> /\ SeparatorFree(values)) =>
          /\ \A k \in 1..Len(graph.nodes) :
                SumValues(EdgesFrom(graph, graph.nodes[k]))
                   = IF graph.nodes[k].label = values[Len(values)]
                     THEN graph.nodes[k].value - 1
                     ELSE graph.nodes[k].value
          /\ Cardinality({k \in 1..Len(graph.nodes) :
                             EdgesFrom(graph, graph.nodes[k]) = <<>>}) <= 1

\* the state B observed twice and left once, B being the last observation
C36_Witness ==
    /\ values = <<"A", "B", "A", "B">>
    /\ Len(graph.nodes) = 2
    /\ graph.nodes[2].value = 2
    /\ SumValues(EdgesFrom(graph, graph.nodes[2])) = 1
    /\ SumValues(EdgesTo(graph, graph.nodes[2])) = 2

----------------------------------------------------------------------------
(* Claims about the states and the transitions of a chain that is edited *)

\* every transition of g leaves a state of g and enters a state of g
Integrity(g) ==
    \A i \in 1..Len(g.edges) :
        g.edges[i].from \in NodeIds(g) /\ g.edges[i].to \in NodeIds(g)

\* the transitions of g that neither leave nor enter the state id
NotIncident(g, id) == SelectSeq(g.edges, LAMBDA e : e.from # id /\ e.to # id)

\* C37: through rebuilds from data and the adding and deleting of states,
\* transitions and loops, every transition leaves and enters a state of the
\* chain; deleting a state takes that state and the transitions that leave
\* or enter it away and leaves every other state and transition in place;
\* adding a transition for an ordered pair that has one leaves the chain as
\* it is.
C37_ReferentialIntegrity ==
    [][/\ Integrity(graph')
       /\ \A id \in NodeIds(graph) :
             DeleteNode(id, FALSE) =>
                /\ NodeIds(graph') = NodeIds(graph) \ {id}
                /\ Len(graph'.nodes) = Len(graph.nodes) - 1
                /\ graph'.edges = NotIncident(graph, id)
       /\ \A from, to \in NodeIds(graph) :
             (AddEdge(from, to) /\ <<from, to>> \in EdgePairs(graph)) => graph' = graph
      ]_vars

\* a state with a loop is left once the other state, which it had a
\* transition to, has been deleted
C37_Witness ==
    /\ viewMode = "drawing"
    /\ Len(graph.nodes) = 1
    /\ graph.nodes[1].label = "State 2"
    /\ graph.edges = << [from |-> graph.nodes[1].id, to |-> graph.nodes[1].id, value |-> 1] >>

----------------------------------------------------------------------------
(* Claims about the ids of the states of a chain that is drawn *)

\* C38: in drawing mode no two states of the chain have the same id,
\* however states were added and deleted.
C38_UniqueIds ==
    viewMode = "drawing" =>
        \A i, j \in 1..Len(graph.nodes) :
            graph.nodes[i].id = graph.nodes[j].id => i = j

====
